---- MODULE Spec2Model ----
(***************************************************************************)
(* FunctionMaxima<A, V> of "Task 5/function_maxima.h": a function from     *)
(* arguments to values kept in a multiset ordered by argument, the set of  *)
(* its local maxima, and copy-on-write handles over that implementation.   *)
(*                                                                         *)
(* A is instantiated with the integers under <.  V is instantiated with a  *)
(* type whose std::less is a strict weak ordering that is not total: the   *)
(* values are naturals compared by Key, so two different values can be     *)
(* equivalent (neither is less than the other), as the header's            *)
(* equivalentValues allows.                                                *)
(*                                                                         *)
(* An iterator of the multiset is the position of its node in argument     *)
(* order (End for end()); an iterator of the std::set of maxima is the     *)
(* element it points to (MxEnd for mx_end()), which is sound because the   *)
(* elements of a std::set are unique.                                      *)
(***************************************************************************)
EXTENDS Integers, Sequences, FiniteSets, TLC

\* Arguments are 1..MaxArg and values 0..MaxValue in the single-handle
\* specification SpecImpl; the two-handle specification Spec uses the smaller
\* 1..CowMaxArg and 0..CowMaxValue, and the specification SpecCells, in which
\* the points carry the identity of their cells, 1..CellMaxArg and
\* 0..CellMaxValue.
MaxArg == 3
MaxValue == 3
CowMaxArg == 1
CowMaxValue == 2
CellMaxArg == 1
CellMaxValue == 1

Args == 1..MaxArg
Values == 0..MaxValue
CowArgs == 1..CowMaxArg
CowValues == 0..CowMaxValue
CellArgs == 1..CellMaxArg
CellValues == 0..CellMaxValue

Handles == {"f", "g"}
ImplHandles == {"f"}
ImplIds == 1..Cardinality(Handles)

\* function.end(): the past-the-end position.
End == 0

\* A point that is never stored (no argument is 0): localMaxima.end(), and the
\* value of a point or iterator variable that has not been assigned.
NoPoint == [arg |-> 0, value |-> 0]
MxEnd == NoPoint

point_type(a, v) == [arg |-> a, value |-> v]

-----------------------------------------------------------------------------
\* Orderings

argLess(a, b) == a < b

Key(v) == (v + 1) \div 2
valueLess(v, w) == Key(v) < Key(w)

equivalentArguments(a, b) == ~argLess(a, b) /\ ~argLess(b, a)

equivalentValues(a, b) == ~valueLess(a, b) /\ ~valueLess(b, a)

\* Mutant: the values are compared for identity, not for equivalence.
equivalentPoints_identical(pt1, pt2) ==
    equivalentArguments(pt1.arg, pt2.arg) /\ pt1.value = pt2.value

equivalentPoints(pt1, pt2) ==
    equivalentArguments(pt1.arg, pt2.arg) /\ equivalentValues(pt1.value, pt2.value)

\* Mutant: a neighbour of equivalent value defeats the point.
valueLessOrEqual_strict(v1, v2) == valueLess(v1, v2)

valueLessOrEqual(v1, v2) == valueLess(v1, v2) \/ equivalentValues(v1, v2)

\* Mutant: the arguments are ordered downwards.
ComparePointsByArguments_reversed(p, q) == argLess(q.arg, p.arg)

ComparePointsByArguments(p, q) == argLess(p.arg, q.arg)

\* Mutant: the values are ordered upwards.
ComparePointsByMaximaOrder_ascending(p, q) ==
    valueLess(p.value, q.value)
        \/ (equivalentValues(p.value, q.value) /\ argLess(p.arg, q.arg))

ComparePointsByMaximaOrder(p, q) ==
    valueLess(q.value, p.value)
        \/ (equivalentValues(p.value, q.value) /\ argLess(p.arg, q.arg))

-----------------------------------------------------------------------------
\* The two containers of an implementation

EmptyImpl == [function |-> <<>>, localMaxima |-> <<>>]

RemoveAt(s, i) == SubSeq(s, 1, i - 1) \o SubSeq(s, i + 1, Len(s))

InsertAt(s, i, e) == SubSeq(s, 1, i - 1) \o <<e>> \o SubSeq(s, i, Len(s))

Elems(s) == {s[i] : i \in 1..Len(s)}

begin(m) == IF Len(m.function) = 0 THEN End ELSE 1

stdPrev(m, it) == IF it = End THEN Len(m.function) ELSE it - 1

stdNext(m, it) == IF it = Len(m.function) THEN End ELSE it + 1

\* Mutant: the lower bound is returned without the test for equivalence.
find_lowerBound(m, a) ==
    LET lb == {i \in 1..Len(m.function) : ~argLess(m.function[i].arg, a)}
    IN  IF lb = {} THEN End ELSE CHOOSE i \in lb : \A j \in lb : i <= j

\* std::multiset::find with the transparent comparator: the first node not
\* less than a, if it is not greater than a either.
find(m, a) ==
    LET lb == {i \in 1..Len(m.function) : ~argLess(m.function[i].arg, a)}
        i0 == IF lb = {} THEN End ELSE CHOOSE i \in lb : \A j \in lb : i <= j
    IN  IF i0 # End /\ ~argLess(a, m.function[i0].arg) THEN i0 ELSE End

\* Mutant: the new node goes at the lower bound of the nodes equivalent to it.
fnInsertPos_lowerBound(m, pt) ==
    1 + Cardinality({i \in 1..Len(m.function) :
                        ComparePointsByArguments(m.function[i], pt)})

\* std::multiset::insert: the new node goes at the upper bound of the nodes
\* equivalent to it. The result is the position of the new node.
fnInsertPos(m, pt) ==
    1 + Cardinality({i \in 1..Len(m.function) :
                        ~ComparePointsByArguments(pt, m.function[i])})

fnInsert(m, pt) ==
    [m EXCEPT !.function = InsertAt(m.function, fnInsertPos(m, pt), pt)]

fnErase(m, it) == [m EXCEPT !.function = RemoveAt(m.function, it)]

\* std::set::find under ComparePointsByMaximaOrder.
setFind(m, pt) ==
    LET eq == {i \in 1..Len(m.localMaxima) :
                  ~ComparePointsByMaximaOrder(m.localMaxima[i], pt)
                      /\ ~ComparePointsByMaximaOrder(pt, m.localMaxima[i])}
    IN  IF eq = {} THEN MxEnd ELSE m.localMaxima[CHOOSE i \in eq : TRUE]

\* std::set::insert: nothing is inserted when an equivalent element is there.
setInsert(m, pt) ==
    IF setFind(m, pt) # MxEnd
    THEN m
    ELSE LET pos == 1 + Cardinality({i \in 1..Len(m.localMaxima) :
                        ComparePointsByMaximaOrder(m.localMaxima[i], pt)})
         IN  [m EXCEPT !.localMaxima = InsertAt(m.localMaxima, pos, pt)]

\* Mutant: every maximum of an equivalent value is erased with the element.
setErase_equivalentValues(m, mxIt) ==
    [m EXCEPT !.localMaxima =
        SelectSeq(m.localMaxima, LAMBDA e : ~equivalentValues(e.value, mxIt.value))]

\* std::set::erase(iterator).
setErase(m, mxIt) ==
    [m EXCEPT !.localMaxima =
        SelectSeq(m.localMaxima, LAMBDA e : e # mxIt)]

\* Mutant: the size of the set of maxima is returned.
size_ofMaxima(m) == Len(m.localMaxima)

size(m) == Len(m.function)

-----------------------------------------------------------------------------
\* The private helpers of FunctionMaximaImpl

\* Mutant: at the first point the point itself is returned, not end().
safePrev_self(m, it) == IF it # begin(m) /\ it # End THEN stdPrev(m, it) ELSE it

safePrev(m, it) == IF it # begin(m) /\ it # End THEN stdPrev(m, it) ELSE End

safeNext(m, it) == IF it # End THEN stdNext(m, it) ELSE it

safePrevWithAvoid(m, it, ignore) ==
    LET prevIt == safePrev(m, it)
    IN  IF prevIt = ignore THEN safePrev(m, prevIt) ELSE prevIt

safeNextWithAvoid(m, it, ignore) ==
    LET nextIt == safeNext(m, it)
    IN  IF nextIt = ignore THEN safeNext(m, nextIt) ELSE nextIt

\* Mutant: the point is never found in the Maxima Index.
mxFind_end(m, it) == MxEnd

mxFind(m, it) == IF it # End THEN setFind(m, m.function[it]) ELSE MxEnd

\* Mutant: the entry is left in the Maxima Index.
mxEraseIfNotEnd_never(m, mxIt) == m

mxEraseIfNotEnd(m, mxIt) == IF mxIt # MxEnd THEN setErase(m, mxIt) ELSE m

\* Mutant: the left neighbour is not skipped when it is the ignored point.
firstMaximaCondition_noSkip(m, it, ignore) ==
    IF it = End THEN FALSE
    ELSE IF it = begin(m) THEN TRUE
    ELSE valueLessOrEqual(m.function[stdPrev(m, it)].value, m.function[it].value)

\* Mutant: a point whose only left neighbour is the ignored one fails.
firstMaximaCondition_noEndCheck(m, it, ignore) ==
    IF it = End THEN FALSE
    ELSE IF it = begin(m) THEN TRUE
    ELSE LET l0 == stdPrev(m, it)
             leftIt == IF l0 = ignore THEN safePrev(m, l0) ELSE l0
         IN  leftIt # End
                /\ valueLessOrEqual(m.function[leftIt].value, m.function[it].value)

firstMaximaCondition(m, it, ignore) ==
    IF it = End THEN FALSE
    ELSE IF it = begin(m) THEN TRUE
    ELSE LET l0 == stdPrev(m, it)
             leftIt == IF l0 = ignore THEN safePrev(m, l0) ELSE l0
         IN  leftIt = End
                \/ valueLessOrEqual(m.function[leftIt].value, m.function[it].value)

\* Mutant: the right neighbour is not skipped when it is the ignored point.
secondMaximaCondition_noSkip(m, it, ignore) ==
    IF it = End THEN FALSE
    ELSE LET rightIt == stdNext(m, it)
         IN  rightIt = End
                \/ valueLessOrEqual(m.function[rightIt].value, m.function[it].value)

\* Mutant: the right neighbour is not looked at.
secondMaximaCondition_always(m, it, ignore) == it # End

secondMaximaCondition(m, it, ignore) ==
    IF it = End THEN FALSE
    ELSE LET r0 == stdNext(m, it)
             rightIt == IF r0 = ignore THEN safeNext(m, r0) ELSE r0
         IN  rightIt = End
                \/ valueLessOrEqual(m.function[rightIt].value, m.function[it].value)

isLocalMaxima(m, it, ignore) ==
    it # ignore /\ firstMaximaCondition(m, it, ignore)
                /\ secondMaximaCondition(m, it, ignore)

-----------------------------------------------------------------------------
\* ChangeLocalMaximaGuard: the transaction on the maxima status of one point

NoGuard == [reverse |-> TRUE, erase |-> FALSE, insert |-> FALSE, mxIt |-> MxEnd]

\* Mutant: a point that is a maximum no more is erased in the constructor.
ChangeLocalMaximaGuard_eager(m, it, ignore) ==
    IF it = ignore
    THEN [m |-> m, g |-> NoGuard]
    ELSE LET mxIt0 == mxFind(m, it)
             wasLocalMaxima == mxIt0 # MxEnd
             isMax == isLocalMaxima(m, it, ignore)
         IN  IF isMax
             THEN IF ~wasLocalMaxima
                  THEN LET m1 == setInsert(m, m.function[it])
                       IN  [m |-> m1,
                            g |-> [NoGuard EXCEPT !.mxIt = setFind(m1, m.function[it]),
                                                  !.insert = TRUE]]
                  ELSE [m |-> m, g |-> [NoGuard EXCEPT !.mxIt = mxIt0]]
             ELSE IF wasLocalMaxima
                  THEN [m |-> setErase(m, mxIt0), g |-> [NoGuard EXCEPT !.mxIt = mxIt0]]
                  ELSE [m |-> m, g |-> [NoGuard EXCEPT !.mxIt = mxIt0]]

\* The constructor: the implementation after it and the guard it built.
ChangeLocalMaximaGuard(m, it, ignore) ==
    IF it = ignore
    THEN [m |-> m, g |-> NoGuard]
    ELSE LET mxIt0 == mxFind(m, it)
             wasLocalMaxima == mxIt0 # MxEnd
             isMax == isLocalMaxima(m, it, ignore)
         IN  IF isMax
             THEN IF ~wasLocalMaxima
                  THEN LET m1 == setInsert(m, m.function[it])
                       IN  [m |-> m1,
                            g |-> [NoGuard EXCEPT !.mxIt = setFind(m1, m.function[it]),
                                                  !.insert = TRUE]]
                  ELSE [m |-> m, g |-> [NoGuard EXCEPT !.mxIt = mxIt0]]
             ELSE IF wasLocalMaxima
                  THEN [m |-> m, g |-> [NoGuard EXCEPT !.mxIt = mxIt0, !.erase = TRUE]]
                  ELSE [m |-> m, g |-> [NoGuard EXCEPT !.mxIt = mxIt0]]

\* Mutant: done() does not mark the guard.
done_forgotten(g) == g

done(g) == [g EXCEPT !.reverse = FALSE]

\* Mutant: a destructor that never takes back an insertion.
GuardDtor_noReverse(m, g) ==
    IF g.reverse THEN m
    ELSE IF g.erase THEN setErase(m, g.mxIt) ELSE m

\* Mutant: a guard that was not marked done erases its entry whether or not
\* it has inserted it.
GuardDtor_eraseAlways(m, g) ==
    IF g.reverse
    THEN mxEraseIfNotEnd(m, g.mxIt)
    ELSE IF g.erase THEN setErase(m, g.mxIt) ELSE m

\* The destructor.
GuardDtor(m, g) ==
    IF g.reverse
    THEN IF g.insert THEN setErase(m, g.mxIt) ELSE m
    ELSE IF g.erase THEN setErase(m, g.mxIt) ELSE m

-----------------------------------------------------------------------------
\* set_value and erase of FunctionMaximaImpl, one step per statement.  The
\* locals of the running call are the frame fr; a step maps the implementation
\* m and the frame to the next ones.  fail says that the step's comparison or
\* allocation throws.

Frame(op, a, v) ==
    [op |-> op, a |-> a, v |-> v, pc |-> "find",
     it |-> End, pt |-> NoPoint, mxIt |-> MxEnd, fnIt |-> End,
     guards |-> <<>>, exc |-> FALSE]

\* The frame of a call that has ended: only its operation and arguments.
Ended(fr) == [Frame(fr.op, fr.a, fr.v) EXCEPT !.pc = "ended"]

St(m, fr) == [m |-> m, fr |-> fr]

\* iterator it = find(a);
StepFind(m, fr, fail) ==
    IF fail THEN St(m, [fr EXCEPT !.exc = TRUE, !.pc = "throw"])
    ELSE St(m, [fr EXCEPT !.it = find(m, fr.a),
                          !.pc = IF fr.op = "set_value" THEN "point" ELSE "mxFind"])

\* point_type pt(a, v);
StepPoint(m, fr, fail) ==
    IF fail THEN St(m, [fr EXCEPT !.exc = TRUE, !.pc = "throw"])
    ELSE St(m, [fr EXCEPT !.pt = point_type(fr.a, fr.v), !.pc = "same"])

\* Mutant: no early return for a point that is already there.
StepSame_never(m, fr, fail) ==
    IF fail THEN St(m, [fr EXCEPT !.exc = TRUE, !.pc = "throw"])
    ELSE St(m, [fr EXCEPT !.pc = "mxFind"])

\* Mutant: the early return compares the arguments only.
StepSame_argsOnly(m, fr, fail) ==
    IF fail THEN St(m, [fr EXCEPT !.exc = TRUE, !.pc = "throw"])
    ELSE IF fr.it # End /\ equivalentArguments(m.function[fr.it].arg, fr.pt.arg)
         THEN St(m, [fr EXCEPT !.pc = "return"])
         ELSE St(m, [fr EXCEPT !.pc = "mxFind"])

\* if (it != end() && equivalentPoints(*it, pt)) return;
StepSame(m, fr, fail) ==
    IF fail THEN St(m, [fr EXCEPT !.exc = TRUE, !.pc = "throw"])
    ELSE IF fr.it # End /\ equivalentPoints(m.function[fr.it], fr.pt)
         THEN St(m, [fr EXCEPT !.pc = "return"])
         ELSE St(m, [fr EXCEPT !.pc = "mxFind"])

\* mx_iterator mxIt = mxFind(it);  and, in erase, the test of it != end().
StepMxFind(m, fr, fail) ==
    IF fail THEN St(m, [fr EXCEPT !.exc = TRUE, !.pc = "throw"])
    ELSE St(m, [fr EXCEPT !.mxIt = mxFind(m, fr.it),
                          !.pc = IF fr.op = "set_value" THEN "insert"
                                 ELSE IF fr.it # End THEN "guardNext"
                                 ELSE "return"])

\* iterator fnIt = function.insert(pt);
StepInsert(m, fr, fail) ==
    IF fail THEN St(m, [fr EXCEPT !.exc = TRUE, !.pc = "throw"])
    ELSE St(fnInsert(m, fr.pt),
            [fr EXCEPT !.fnIt = fnInsertPos(m, fr.pt), !.pc = "guardNext"])

\* The point a guard is built for.
GuardTarget(m, fr) ==
    IF fr.op = "set_value"
    THEN CASE fr.pc = "guardNext" -> safeNextWithAvoid(m, fr.fnIt, fr.it)
           [] fr.pc = "guardCurr" -> fr.fnIt
           [] OTHER -> safePrevWithAvoid(m, fr.fnIt, fr.it)
    ELSE CASE fr.pc = "guardNext" -> safeNext(m, fr.it)
           [] OTHER -> safePrev(m, fr.it)

\* Where the call goes once no guard is left on the stack: into the catch
\* block or out of the call when an exception is in flight.
AfterGuards(fr) ==
    IF fr.exc
    THEN IF fr.op = "set_value" THEN "catch" ELSE "throw"
    ELSE IF fr.op = "set_value" THEN "eraseOld" ELSE "return"

\* auto xElementGuard = ChangeLocalMaximaGuard(..., it, *this);
StepGuard(m, fr, fail) ==
    IF fail
    THEN St(m, [fr EXCEPT !.exc = TRUE,
                          !.pc = IF fr.guards = <<>>
                                 THEN AfterGuards([fr EXCEPT !.exc = TRUE])
                                 ELSE "dtor"])
    ELSE LET r == ChangeLocalMaximaGuard(m, GuardTarget(m, fr), fr.it)
         IN  St(r.m, [fr EXCEPT !.guards = Append(fr.guards, r.g),
                                !.pc = CASE fr.pc = "guardNext" ->
                                              IF fr.op = "set_value"
                                              THEN "guardCurr" ELSE "guardPrev"
                                         [] fr.pc = "guardCurr" -> "guardPrev"
                                         [] OTHER -> "done"])

\* nextElementGuard.done(); ... prevElementGuard.done();
StepDone(m, fr) ==
    St(m, [fr EXCEPT !.guards = [i \in 1..Len(fr.guards) |-> done(fr.guards[i])],
                     !.pc = IF fr.op = "set_value" THEN "dtor" ELSE "eraseTarget"])

\* A scope is left, normally or by an exception: the guard built last is
\* destroyed.
StepDtor(m, fr) ==
    LET n == Len(fr.guards)
        rest == SubSeq(fr.guards, 1, n - 1)
    IN  St(GuardDtor(m, fr.guards[n]),
           [fr EXCEPT !.guards = rest,
                      !.pc = IF rest = <<>> THEN AfterGuards(fr) ELSE "dtor"])

\* Mutant: the catch block rethrows without erasing the new point.
StepCatch_noErase(m, fr) == St(m, [fr EXCEPT !.pc = "throw"])

\* catch (...) { function.erase(fnIt); throw; }
StepCatch(m, fr) == St(fnErase(m, fr.fnIt), [fr EXCEPT !.pc = "throw"])

\* Mutant: the old point is taken out of the maxima but left in the function.
StepEraseOld_keep(m, fr) ==
    St(mxEraseIfNotEnd(m, fr.mxIt), [fr EXCEPT !.pc = "return"])

\* if (it != end()) { function.erase(it); mxEraseIfNotEnd(mxIt); }
StepEraseOld(m, fr) ==
    IF fr.it # End
    THEN St(mxEraseIfNotEnd(fnErase(m, fr.it), fr.mxIt), [fr EXCEPT !.pc = "return"])
    ELSE St(m, [fr EXCEPT !.pc = "return"])

\* Mutant: erase takes the point out of the maxima only.
StepEraseTarget_maximaOnly(m, fr) ==
    St(mxEraseIfNotEnd(m, fr.mxIt), [fr EXCEPT !.pc = "dtor"])

\* erase: function.erase(it); mxEraseIfNotEnd(mxIt);  the guards die after it.
StepEraseTarget(m, fr) ==
    St(mxEraseIfNotEnd(fnErase(m, fr.it), fr.mxIt), [fr EXCEPT !.pc = "dtor"])

Terminal(fr) == fr.pc \in {"return", "throw"}

\* The steps at which a comparison or an allocation is made, and so can throw.
CanThrow(m, fr) ==
    CASE fr.pc \in {"find", "point", "insert"} -> TRUE
      [] fr.pc \in {"same", "mxFind"} -> fr.it # End
      [] fr.pc \in {"guardNext", "guardCurr", "guardPrev"} ->
             GuardTarget(m, fr) # fr.it /\ GuardTarget(m, fr) # End
      [] OTHER -> FALSE

ImplStep(m, fr, fail) ==
    CASE fr.pc = "find" -> StepFind(m, fr, fail)
      [] fr.pc = "point" -> StepPoint(m, fr, fail)
      [] fr.pc = "same" -> StepSame(m, fr, fail)
      [] fr.pc = "mxFind" -> StepMxFind(m, fr, fail)
      [] fr.pc = "insert" -> StepInsert(m, fr, fail)
      [] fr.pc \in {"guardNext", "guardCurr", "guardPrev"} -> StepGuard(m, fr, fail)
      [] fr.pc = "done" -> StepDone(m, fr)
      [] fr.pc = "dtor" -> StepDtor(m, fr)
      [] fr.pc = "catch" -> StepCatch(m, fr)
      [] fr.pc = "eraseOld" -> StepEraseOld(m, fr)
      [] fr.pc = "eraseTarget" -> StepEraseTarget(m, fr)

\* A whole call in which nothing throws.
RECURSIVE RunFrom(_)
RunFrom(st) ==
    IF Terminal(st.fr) THEN st ELSE RunFrom(ImplStep(st.m, st.fr, FALSE))

set_value(m, a, v) == RunFrom(St(m, Frame("set_value", a, v))).m

erase(m, a) == RunFrom(St(m, Frame("erase", a, 0))).m

\* Mutant: a default value instead of the exception.
value_at_default(m, a) ==
    LET it == find(m, a)
    IN  [result |-> "ok", ret |-> IF it = End THEN 0 ELSE m.function[it].value]

\* value_at: the value, or InvalidArg thrown.
value_at(m, a) ==
    LET it == find(m, a)
    IN  IF it = End
        THEN [result |-> "InvalidArg", ret |-> 0]
        ELSE [result |-> "ok", ret |-> m.function[it].value]

-----------------------------------------------------------------------------
\* The handles (FunctionMaxima) and the state of the program

VARIABLES
    cow,    \* cow[h]: the implementation the shared pointer of handle h owns
    impls,  \* impls[i]: implementation i; EmptyImpl when nothing owns i
    call    \* the call that is running, or the last one that ended

vars == <<cow, impls, call>>

\* No call yet.  pc is "exit" whenever no call is running.  injected says that
\* a failure was forced inside the call and failedAt at which step, result how the call ended ("ok",
\* "throw" for the forced failure leaving the call, "InvalidArg"), ret what
\* value_at returned.  preCow and preImpls are the state when the call began.
\* reference[h] is the function that handle h holds under value semantics:
\* a function of its own, deep-copied at every copy of a handle and changed by
\* the calls made through h that succeeded.
NoCall ==
    [pc |-> "exit", h |-> "f", fr |-> Ended(Frame("none", 0, 0)),
     cowBackup |-> 0, injected |-> FALSE, failedAt |-> "none",
     result |-> "none", ret |-> 0,
     preCow |-> [h \in Handles |-> 0],
     preImpls |-> [i \in ImplIds |-> EmptyImpl],
     reference |-> [h \in Handles |-> EmptyImpl]]

\* FunctionMaxima() : cow(std::make_shared<Impl>()) for each handle.
Init ==
    /\ cow = [h \in Handles |-> IF h = "f" THEN 1 ELSE 2]
    /\ impls = [i \in ImplIds |-> EmptyImpl]
    /\ call = NoCall

\* Mutant: the handle believes it is the only owner.
use_count_self(c, backup, h) == 1

\* cow.use_count(): the handles and the local cowBackup that own the same
\* implementation as h.
use_count(c, backup, h) ==
    Cardinality({g \in Handles : c[g] = c[h]}) + (IF backup = c[h] THEN 1 ELSE 0)

\* std::shared_ptr: an implementation that nothing owns any more is destroyed.
Collect(c, backup, im) ==
    [i \in ImplIds |->
        IF (\E g \in Handles : c[g] = i) \/ backup = i THEN im[i] ELSE EmptyImpl]

\* std::make_shared<Impl>: an implementation that nothing owns.
FreshImpl(c, backup) ==
    CHOOSE i \in ImplIds :
        /\ (\A g \in Handles : c[g] # i) /\ backup # i
        /\ \A j \in ImplIds : ((\A g \in Handles : c[g] # j) /\ backup # j) => i <= j

Begin(op, h, a, v) ==
    /\ call.pc = "exit"
    /\ call' = [NoCall EXCEPT !.reference = call.reference,
                              !.pc = "cowMutator", !.h = h, !.fr = Frame(op, a, v),
                              !.preCow = cow, !.preImpls = impls]
    /\ UNCHANGED <<cow, impls>>

\* FunctionMaxima::set_value is called.
SetValueCall(h, a, v) == Begin("set_value", h, a, v)

\* FunctionMaxima::erase is called.
EraseCall(h, a) == Begin("erase", h, a, 0)

\* Mutant: value_at goes through the copy-on-write path and gives the handle
\* a clone when its implementation is shared.
ValueAt_detaches(h, a) ==
    /\ call.pc = "exit"
    /\ LET r == value_at(impls[cow[h]], a)
       IN  call' = [NoCall EXCEPT !.reference = call.reference,
                                  !.h = h, !.fr = Ended(Frame("value_at", a, 0)),
                                  !.result = r.result, !.ret = r.ret,
                                  !.preCow = cow, !.preImpls = impls]
    /\ IF use_count(cow, 0, h) > 1
       THEN LET i == FreshImpl(cow, 0)
            IN  /\ impls' = [impls EXCEPT ![i] = impls[cow[h]]]
                /\ cow' = [cow EXCEPT ![h] = i]
       ELSE UNCHANGED <<cow, impls>>

\* FunctionMaxima::value_at: a read, in one step.
ValueAt(h, a) ==
    /\ call.pc = "exit"
    /\ LET r == value_at(impls[cow[h]], a)
       IN  call' = [NoCall EXCEPT !.reference = call.reference,
                                  !.h = h, !.fr = Ended(Frame("value_at", a, 0)),
                                  !.result = r.result, !.ret = r.ret,
                                  !.preCow = cow, !.preImpls = impls]
    /\ UNCHANGED <<cow, impls>>

\* Mutant: the copy assignment copies the containers into the implementation
\* that h owns.
CopyAssign_deep(h, g) ==
    /\ call.pc = "exit"
    /\ h # g
    /\ impls' = [impls EXCEPT ![cow[h]] = impls[cow[g]]]
    /\ call' = [NoCall EXCEPT !.reference = [call.reference EXCEPT ![h] = call.reference[g]],
                              !.h = h, !.fr = Ended(Frame("copy", 0, 0)),
                              !.result = "ok",
                              !.preCow = cow, !.preImpls = impls]
    /\ UNCHANGED cow

\* A read accessor, in one step: the call record keeps what it returned.
ReadCall(h, fr, result, ret) ==
    /\ call.pc = "exit"
    /\ call' = [NoCall EXCEPT !.reference = call.reference,
                              !.h = h, !.fr = fr, !.result = result, !.ret = ret,
                              !.preCow = cow, !.preImpls = impls]
    /\ UNCHANGED <<cow, impls>>

\* FunctionMaxima::find: cow->find(a).  fail: a comparison throws, which it
\* can when there is a point to compare a with.
ReadFind(h, a, fail) ==
    IF fail
    THEN /\ Len(impls[cow[h]].function) > 0
         /\ ReadCall(h, Ended(Frame("find", a, 0)), "throw", 0)
    ELSE ReadCall(h, [Ended(Frame("find", a, 0)) EXCEPT !.it = find(impls[cow[h]], a)],
                  "ok", 0)

\* FunctionMaxima::size: cow->size().
ReadSize(h) ==
    ReadCall(h, Ended(Frame("size", 0, 0)), "ok", size(impls[cow[h]]))

\* FunctionMaxima::begin: cow->begin().
ReadBegin(h) ==
    ReadCall(h, [Ended(Frame("begin", 0, 0)) EXCEPT !.it = begin(impls[cow[h]])],
             "ok", 0)

\* FunctionMaxima::end: cow->end().
ReadEnd(h) ==
    ReadCall(h, [Ended(Frame("end", 0, 0)) EXCEPT !.it = End], "ok", 0)

\* FunctionMaxima::mx_begin: cow->mx_begin().
ReadMxBegin(h) ==
    LET mx == impls[cow[h]].localMaxima
    IN  ReadCall(h, [Ended(Frame("mx_begin", 0, 0)) EXCEPT
                        !.mxIt = IF mx = <<>> THEN MxEnd ELSE mx[1]], "ok", 0)

\* FunctionMaxima::mx_end: cow->mx_end().
ReadMxEnd(h) ==
    ReadCall(h, [Ended(Frame("mx_end", 0, 0)) EXCEPT !.mxIt = MxEnd], "ok", 0)

\* The read accessors other than value_at.
ReadAccessor(h, a) ==
    \/ \E fail \in BOOLEAN : ReadFind(h, a, fail)
    \/ ReadSize(h)
    \/ ReadBegin(h)
    \/ ReadEnd(h)
    \/ ReadMxBegin(h)
    \/ ReadMxEnd(h)

\* The defaulted copy assignment h = g: h shares the implementation of g.
CopyAssign(h, g) ==
    /\ call.pc = "exit"
    /\ h # g
    /\ cow' = [cow EXCEPT ![h] = cow[g]]
    /\ impls' = Collect(cow', 0, impls)
    /\ call' = [NoCall EXCEPT !.reference = [call.reference EXCEPT ![h] = call.reference[g]],
                              !.h = h, !.fr = Ended(Frame("copy", 0, 0)),
                              !.result = "ok",
                              !.preCow = cow, !.preImpls = impls]

\* Mutant: the handle that is constructed keeps the implementation of the
\* handle it replaces.
Construct_keep(h) ==
    /\ call.pc = "exit"
    /\ call' = [NoCall EXCEPT !.reference = [call.reference EXCEPT ![h] = EmptyImpl],
                              !.h = h, !.fr = Ended(Frame("construct", 0, 0)),
                              !.result = "ok",
                              !.preCow = cow, !.preImpls = impls]
    /\ UNCHANGED <<cow, impls>>

\* The handle h is destroyed and a handle is constructed in its place:
\* FunctionMaxima() : cow(std::make_shared<Impl>()).  The implementation is
\* one that no other handle owns.  (When the allocation throws there is no
\* handle, and nothing to say about it.)
Construct(h) ==
    /\ call.pc = "exit"
    /\ LET free == {i \in ImplIds : \A g \in Handles \ {h} : cow[g] # i}
           i == CHOOSE i \in free : \A j \in free : i <= j
       IN  /\ cow' = [cow EXCEPT ![h] = i]
           /\ impls' = [Collect(cow', 0, impls) EXCEPT ![i] = EmptyImpl]
    /\ call' = [NoCall EXCEPT !.reference = [call.reference EXCEPT ![h] = EmptyImpl],
                              !.h = h, !.fr = Ended(Frame("construct", 0, 0)),
                              !.result = "ok",
                              !.preCow = cow, !.preImpls = impls]

\* Mutant: no clone for a call that will change nothing.
CowShared_skipNoOp ==
    /\ call.pc = "cowMutator"
    /\ use_count(cow, call.cowBackup, call.h) > 1
    /\ LET m == impls[cow[call.h]]
           it == find(m, call.fr.a)
           noOp == IF call.fr.op = "erase" THEN it = End
                   ELSE it # End /\ equivalentValues(m.function[it].value, call.fr.v)
       IN  call' = IF noOp THEN [call EXCEPT !.pc = "impl"]
                   ELSE [call EXCEPT !.cowBackup = cow[call.h], !.pc = "clone"]
    /\ UNCHANGED <<cow, impls>>

\* cowMutator: if (cow.use_count() > 1) { auto cowBackup = cow;
CowShared ==
    /\ call.pc = "cowMutator"
    /\ use_count(cow, call.cowBackup, call.h) > 1
    /\ call' = [call EXCEPT !.cowBackup = cow[call.h], !.pc = "clone"]
    /\ UNCHANGED <<cow, impls>>

\* Mutant: the sole owner takes the branch of the shared handle: it keeps a
\* backup reference while the call runs.
CowExclusive_backup ==
    /\ call.pc = "cowMutator"
    /\ ~(use_count(cow, call.cowBackup, call.h) > 1)
    /\ call' = [call EXCEPT !.cowBackup = cow[call.h], !.pc = "impl"]
    /\ UNCHANGED <<cow, impls>>

\* cowMutator: else: the call runs on the implementation in place.
CowExclusive ==
    /\ call.pc = "cowMutator"
    /\ ~(use_count(cow, call.cowBackup, call.h) > 1)
    /\ call' = [call EXCEPT !.pc = "impl"]
    /\ UNCHANGED <<cow, impls>>

\* Mutant: the clone gets cells of its own for every point.
CowClone_deepCells ==
    /\ call.pc = "clone"
    /\ LET i == FreshImpl(cow, call.cowBackup)
           m == impls[cow[call.h]]
           n == Cardinality({p.argCell : p \in UNION {Elems(impls[j].function) : j \in ImplIds}})
           deep(p) == IF "argCell" \in DOMAIN p
                      THEN [p EXCEPT !.argCell = @ + n + 1, !.valueCell = @ + n + 1]
                      ELSE p
           copy(q) == [k \in 1..Len(q) |-> deep(q[k])]
       IN  /\ impls' = [impls EXCEPT ![i] = [function |-> copy(m.function),
                                            localMaxima |-> copy(m.localMaxima)]]
           /\ cow' = [cow EXCEPT ![call.h] = i]
    /\ call' = [call EXCEPT !.pc = "impl"]

\* Mutant: no clone is made; the call runs on the shared implementation.
CowClone_inPlace ==
    /\ call.pc = "clone"
    /\ call' = [call EXCEPT !.pc = "impl"]
    /\ UNCHANGED <<cow, impls>>

\* Mutant: the handle gets a new empty implementation instead of a copy.
CowClone_empty ==
    /\ call.pc = "clone"
    /\ LET i == FreshImpl(cow, call.cowBackup)
       IN  /\ impls' = [impls EXCEPT ![i] = EmptyImpl]
           /\ cow' = [cow EXCEPT ![call.h] = i]
    /\ call' = [call EXCEPT !.pc = "impl"]

\* cow = std::make_shared<Impl>(*cow);
CowClone ==
    /\ call.pc = "clone"
    /\ LET i == FreshImpl(cow, call.cowBackup)
       IN  /\ impls' = [impls EXCEPT ![i] = impls[cow[call.h]]]
           /\ cow' = [cow EXCEPT ![call.h] = i]
    /\ call' = [call EXCEPT !.pc = "impl"]

\* The allocation or the copy of the containers throws: nothing was assigned.
CowCloneFails ==
    /\ call.pc = "clone"
    /\ call' = [call EXCEPT !.pc = "cowCatch", !.injected = TRUE,
                            !.failedAt = "clone"]
    /\ UNCHANGED <<cow, impls>>

\* Mutant: in the shared branch the member function is called on the backup.
ImplAdvance_onBackup ==
    /\ call.pc = "impl"
    /\ ~Terminal(call.fr)
    /\ LET i == IF call.cowBackup # 0 THEN call.cowBackup ELSE cow[call.h]
           st == ImplStep(impls[i], call.fr, FALSE)
       IN  /\ impls' = [impls EXCEPT ![i] = st.m]
           /\ call' = [call EXCEPT !.fr = st.fr]
    /\ UNCHANGED cow

\* One step of Impl::set_value or Impl::erase on *cow.
ImplAdvance ==
    /\ call.pc = "impl"
    /\ ~Terminal(call.fr)
    /\ LET st == ImplStep(impls[cow[call.h]], call.fr, FALSE)
       IN  /\ impls' = [impls EXCEPT ![cow[call.h]] = st.m]
           /\ call' = [call EXCEPT !.fr = st.fr]
    /\ UNCHANGED cow

\* The comparison or allocation of the step throws.  One failure per call.
ImplFail ==
    /\ call.pc = "impl"
    /\ ~call.injected
    /\ CanThrow(impls[cow[call.h]], call.fr)
    /\ LET st == ImplStep(impls[cow[call.h]], call.fr, TRUE)
       IN  /\ impls' = [impls EXCEPT ![cow[call.h]] = st.m]
           /\ call' = [call EXCEPT !.fr = st.fr, !.injected = TRUE,
                                   !.failedAt = call.fr.pc]
    /\ UNCHANGED cow

\* The member function returns; cowMutator returns, which destroys cowBackup.
ImplReturn ==
    /\ call.pc = "impl"
    /\ call.fr.pc = "return"
    /\ call' = [call EXCEPT !.pc = "exit", !.fr = Ended(call.fr),
                            !.cowBackup = 0, !.result = "ok",
                            !.reference[call.h] =
                                IF call.fr.op = "set_value"
                                THEN set_value(@, call.fr.a, call.fr.v)
                                ELSE erase(@, call.fr.a)]
    /\ impls' = Collect(cow, 0, impls)
    /\ UNCHANGED cow

\* The exception leaves the member function: into the catch block of
\* cowMutator when there is one, else out of cowMutator.
ImplThrow ==
    /\ call.pc = "impl"
    /\ call.fr.pc = "throw"
    /\ call' = IF call.cowBackup # 0
               THEN [call EXCEPT !.pc = "cowCatch"]
               ELSE [call EXCEPT !.pc = "exit", !.fr = Ended(call.fr),
                                 !.result = "throw"]
    /\ UNCHANGED <<cow, impls>>

\* Mutant: the catch block rethrows without restoring cow.
CowCatch_noRestore ==
    /\ call.pc = "cowCatch"
    /\ impls' = Collect(cow, 0, impls)
    /\ call' = [call EXCEPT !.pc = "exit", !.fr = Ended(call.fr),
                            !.cowBackup = 0, !.result = "throw"]
    /\ UNCHANGED cow

\* catch (...) { cow = cowBackup; throw; }
CowCatch ==
    /\ call.pc = "cowCatch"
    /\ cow' = [cow EXCEPT ![call.h] = call.cowBackup]
    /\ impls' = Collect(cow', 0, impls)
    /\ call' = [call EXCEPT !.pc = "exit", !.fr = Ended(call.fr),
                            !.cowBackup = 0, !.result = "throw"]

\* The steps of a running call, in place.
RunCall == ImplAdvance \/ ImplFail \/ ImplReturn \/ ImplThrow \/ CowExclusive

\* The steps that exist only when handles share an implementation.
RunShared == CowShared \/ CowClone \/ CowCloneFails \/ CowCatch

\* One handle that is never copied, over Args and Values.
NextImpl ==
    \/ \E h \in ImplHandles, a \in Args, v \in Values : SetValueCall(h, a, v)
    \/ \E h \in ImplHandles, a \in Args : EraseCall(h, a)
    \/ \E h \in ImplHandles, a \in Args : ValueAt(h, a)
    \/ RunCall

SpecImpl == Init /\ [][NextImpl]_vars

\* Two handles that are copied and mutated, over CowArgs and CowValues.
Next ==
    \/ \E h \in Handles, a \in CowArgs, v \in CowValues : SetValueCall(h, a, v)
    \/ \E h \in Handles, a \in CowArgs : EraseCall(h, a)
    \/ \E h \in Handles, a \in CowArgs : ValueAt(h, a)
    \/ \E h \in Handles, a \in CowArgs : ReadAccessor(h, a)
    \/ \E h \in Handles, g \in Handles : CopyAssign(h, g)
    \/ \E h \in Handles : Construct(h)
    \/ RunCall
    \/ RunShared

Spec == Init /\ [][Next]_vars

\* The calls of the scenario, in order: set_value of each point of
\* ScenarioPoints, then erase(ScenarioErased).
ScenarioPoints ==
    <<point_type(1, 10), point_type(2, 20), point_type(3, 10),
      point_type(4, 30), point_type(5, 5)>>

ScenarioErased == ScenarioPoints[4].arg

\* The next set_value of the scenario: the function holds the points set so
\* far (a call that failed is made again).
ScenarioSetValue ==
    \E n \in 0..(Len(ScenarioPoints) - 1) :
        /\ impls[cow["f"]].function = SubSeq(ScenarioPoints, 1, n)
        /\ SetValueCall("f", ScenarioPoints[n + 1].arg, ScenarioPoints[n + 1].value)

\* The erase of the scenario, once all points are set.
ScenarioErase ==
    /\ impls[cow["f"]].function = ScenarioPoints
    /\ EraseCall("f", ScenarioErased)

NextScenario ==
    \/ ScenarioSetValue
    \/ ScenarioErase
    \/ RunCall

SpecScenario == Init /\ [][NextScenario]_vars

-----------------------------------------------------------------------------
\* The cells of the points.  In SpecCells a point carries, next to the
\* argument and the value, the identity of the two cells that _arg and _value
\* point to.  Copying a point (into a container, with a container) copies
\* the two shared pointers, that is the whole record.

\* The points that exist: those in the containers of the implementations and
\* the local pt of the member function that is running.
LivePoints ==
    UNION {Elems(impls[i].function) \cup Elems(impls[i].localMaxima) : i \in ImplIds}
        \cup (IF call.pc = "impl" /\ ~Terminal(call.fr) THEN {call.fr.pt} ELSE {})

\* The points among ps that carry cells (NoPoint does not).
WithCells(ps) == {p \in ps : "argCell" \in DOMAIN p}

\* The cells that a point owns.
ArgCells == {p.argCell : p \in WithCells(LivePoints)}
ValueCells == {p.valueCell : p \in WithCells(LivePoints)}

\* std::make_shared: a cell that no point owns.
FreshCell(used) ==
    CHOOSE c \in 1..(Cardinality(used) + 1) :
        /\ c \notin used
        /\ \A d \in 1..(Cardinality(used) + 1) : d \notin used => c <= d

\* point_type(a, v) : _arg(std::make_shared<const A>(a)),
\*                    _value(std::make_shared<const V>(v)).
point_type_cells(a, v) ==
    [arg |-> a, value |-> v,
     argCell |-> FreshCell(ArgCells), valueCell |-> FreshCell(ValueCells)]

\* One step of Impl::set_value or Impl::erase on *cow, the constructor of pt
\* making its two cells.
ImplAdvanceCells ==
    /\ call.pc = "impl"
    /\ ~Terminal(call.fr)
    /\ LET st == ImplStep(impls[cow[call.h]], call.fr, FALSE)
           fr1 == IF call.fr.pc = "point"
                  THEN [st.fr EXCEPT !.pt = point_type_cells(call.fr.a, call.fr.v)]
                  ELSE st.fr
       IN  /\ impls' = [impls EXCEPT ![cow[call.h]] = st.m]
           /\ call' = [call EXCEPT !.fr = fr1]
    /\ UNCHANGED cow

\* Two handles that are copied and mutated, the points with their cells.
NextCells ==
    \/ \E h \in Handles, a \in CellArgs, v \in CellValues : SetValueCall(h, a, v)
    \/ \E h \in Handles, a \in CellArgs : EraseCall(h, a)
    \/ \E h \in Handles, g \in Handles : CopyAssign(h, g)
    \/ ImplAdvanceCells
    \/ ImplFail
    \/ ImplReturn
    \/ ImplThrow
    \/ CowExclusive
    \/ RunShared

SpecCells == Init /\ [][NextCells]_vars

-----------------------------------------------------------------------------
\* What the claims speak of

\* No call is running.
Idle == call.pc = "exit"

\* The call op has ended, by a return or by an exception.
Exited(op) == Idle /\ call.fr.op = op

Mutating == call.fr.op \in {"set_value", "erase"}

\* The implementation of the handle of the call, now and when the call began.
TheImpl == impls[cow[call.h]]
PreImpl == call.preImpls[call.preCow[call.h]]

\* What a handle over implementation m lets one observe.
Obs(m) ==
    [entries |-> m.function, maxima |-> m.localMaxima, size |-> size(m),
     values |-> [a \in Args |-> value_at(m, a)]]

\* The full rescan: the points not below their left and right neighbours.
OracleMaxima(fn) ==
    {fn[i] : i \in {j \in 1..Len(fn) :
        /\ (j = 1 \/ ~valueLess(fn[j].value, fn[j - 1].value))
        /\ (j = Len(fn) \/ ~valueLess(fn[j].value, fn[j + 1].value))}}

HoldsArg(m, a) == \E i \in 1..Len(m.function) : equivalentArguments(m.function[i].arg, a)

\* C1: after every completed set_value or erase call the Maxima Index holds
\* exactly the points of the Function Store that are not below their left and
\* right neighbours (each once): it equals the full rescan of the store.
C1_MaximaEqualRescan ==
    Idle =>
        \A i \in ImplIds :
            /\ Elems(impls[i].localMaxima) = OracleMaxima(impls[i].function)
            /\ Len(impls[i].localMaxima) = Cardinality(Elems(impls[i].localMaxima))

\* A successful call after which a point that was a maximum is still stored
\* but is a maximum no more.
C1_Witness ==
    /\ Idle /\ Mutating /\ call.result = "ok"
    /\ \E p \in Elems(PreImpl.localMaxima) :
          p \in Elems(TheImpl.function) /\ p \notin Elems(TheImpl.localMaxima)

\* C2: a failure forced at any one step of set_value leaves, when the call
\* exits, the Function Store, the Maxima Index, size() and every value_at
\* result as before the call (the new point is gone, no maxima insertion of
\* the call is left), and the failure reaches the caller.
C2_SetValueRollsBack ==
    (Exited("set_value") /\ call.injected) =>
        /\ call.result = "throw"
        /\ cow = call.preCow
        /\ impls = call.preImpls
        /\ Obs(TheImpl) = Obs(PreImpl)
        /\ (point_type(call.fr.a, call.fr.v) \notin Elems(PreImpl.function)
                => point_type(call.fr.a, call.fr.v) \notin Elems(TheImpl.function))

\* The failure came at the last guard, after the new point had been put into
\* the store and into the maxima, and next to an old point at the argument.
C2_Witness ==
    /\ Exited("set_value") /\ call.failedAt = "guardPrev"
    /\ HoldsArg(PreImpl, call.fr.a)
    /\ point_type(call.fr.a, call.fr.v)
          \in Elems(set_value(PreImpl, call.fr.a, call.fr.v).localMaxima)

\* C3: a failure forced at any one step of erase leaves, when the call exits,
\* the Function Store and the Maxima Index as before the call (the target is
\* still stored), and the failure reaches the caller.
C3_EraseRollsBack ==
    (Exited("erase") /\ call.injected) =>
        /\ call.result = "throw"
        /\ cow = call.preCow
        /\ impls = call.preImpls
        /\ (HoldsArg(PreImpl, call.fr.a) => HoldsArg(TheImpl, call.fr.a))

\* The failure came at the guard of the predecessor, after the guard of the
\* successor had made the successor a maximum.
C3_Witness ==
    /\ Exited("erase") /\ call.failedAt = "guardPrev"
    /\ \E p \in Elems(erase(PreImpl, call.fr.a).localMaxima) :
          p \notin Elems(PreImpl.localMaxima) /\ argLess(call.fr.a, p.arg)

\* C4: at every step of a set_value or erase call through one handle, every
\* other handle owns the implementation it owned when the call began and
\* observes through it the entries, maxima, size() and value_at results of
\* then.
C4_CopyOnWriteIsolation ==
    Mutating =>
        \A g \in Handles \ {call.h} :
            /\ cow[g] = call.preCow[g]
            /\ Obs(impls[cow[g]]) = Obs(call.preImpls[call.preCow[g]])

\* A successful mutation through a handle that shared its implementation with
\* the other handle: the two now observe different functions.
C4_Witness ==
    /\ Idle /\ Mutating /\ call.result = "ok"
    /\ \E g \in Handles \ {call.h} :
          /\ call.preCow[g] = call.preCow[call.h]
          /\ Obs(impls[cow[g]]) # Obs(TheImpl)

SharedBefore == use_count(call.preCow, 0, call.h) > 1

\* C5: when a mutating call through a handle whose implementation is shared
\* fails, in the clone or in the mutation of the clone, every handle owns
\* afterwards the implementation it owned before, all implementations are
\* as before (the clone is destroyed), and the failure reaches the caller.
C5_SharedFailureKeepsOriginal ==
    (Idle /\ Mutating /\ call.injected /\ SharedBefore) =>
        /\ call.result = "throw"
        /\ cow = call.preCow
        /\ impls = call.preImpls
        /\ \A i \in ImplIds : (\A g \in Handles : cow[g] # i) => impls[i] = EmptyImpl

\* The failure came inside the mutation of the clone, after the new point had
\* been inserted into the clone.
C5_Witness ==
    /\ Idle /\ Mutating /\ SharedBefore
    /\ call.failedAt = "guardCurr"

\* C6 as stated: a successful set_value(a, v) followed at once by value_at(a)
\* returns v.
C6_Original ==
    (Exited("set_value") /\ call.result = "ok") =>
        value_at(TheImpl, call.fr.a) = [result |-> "ok", ret |-> call.fr.v]

\* C6, amended: a successful set_value(a, v) followed at once by value_at(a)
\* returns a value that is value-equivalent to v: v itself, unless the function
\* held at a a value equivalent to v before the call, which is then kept and
\* returned.
C6_SetThenValueAt ==
    (Exited("set_value") /\ call.result = "ok") =>
        LET r == value_at(TheImpl, call.fr.a)
            o == value_at(PreImpl, call.fr.a)
        IN  /\ r.result = "ok"
            /\ equivalentValues(r.ret, call.fr.v)
            /\ IF o.result = "ok" /\ equivalentValues(o.ret, call.fr.v)
               THEN r.ret = o.ret
               ELSE r.ret = call.fr.v

\* set_value with a value that is equivalent to the stored one and differs
\* from it.
C6_Witness ==
    /\ Exited("set_value") /\ call.result = "ok"
    /\ value_at(TheImpl, call.fr.a).ret # call.fr.v

AbsentFrom(m, a) ==
    /\ \A i \in 1..Len(m.function) : ~equivalentArguments(m.function[i].arg, a)
    /\ \A i \in 1..Len(m.localMaxima) : ~equivalentArguments(m.localMaxima[i].arg, a)

\* C7: after a successful erase(a) no point at a is in the Function Store or
\* the Maxima Index and value_at(a) fails with InvalidArg; an argument that is
\* absent stays absent through every step that is not a step of a set_value
\* on that argument, and value_at on an absent argument fails with InvalidArg.
C7_ErasedStaysAbsent ==
    /\ []((Exited("erase") /\ call.result = "ok") =>
            /\ AbsentFrom(TheImpl, call.fr.a)
            /\ value_at(TheImpl, call.fr.a).result = "InvalidArg")
    /\ []((Exited("value_at") /\ AbsentFrom(TheImpl, call.fr.a)) =>
            call.result = "InvalidArg")
    /\ [][impls' # impls =>
            \A h \in ImplHandles, a \in Args :
                (AbsentFrom(impls[cow[h]], a)
                    /\ ~(call'.fr.op = "set_value" /\ call'.fr.a = a))
                => AbsentFrom(impls[cow[h]], a)']_vars

\* erase has removed a point that was stored, and others are left.
C7_Witness ==
    /\ Exited("erase") /\ call.result = "ok"
    /\ HoldsArg(PreImpl, call.fr.a)
    /\ Len(TheImpl.function) >= 2

\* C8: value_at(a) fails with InvalidArg exactly when the Function Store holds
\* no point argument-equivalent to a, and returns the value of the one stored
\* point at a otherwise; no other operation ends with InvalidArg.
C8_ValueAtNotFound ==
    /\ Exited("value_at") =>
          LET at == {i \in 1..Len(TheImpl.function) :
                        equivalentArguments(TheImpl.function[i].arg, call.fr.a)}
          IN  /\ (call.result = "InvalidArg") <=> (at = {})
              /\ at # {} =>
                    /\ Cardinality(at) = 1
                    /\ call.result = "ok"
                    /\ \A i \in at : call.ret = TheImpl.function[i].value
    /\ call.result = "InvalidArg" => call.fr.op = "value_at"

\* value_at has failed on a function that holds points at other arguments.
C8_Witness ==
    /\ Exited("value_at") /\ call.result = "InvalidArg"
    /\ Len(TheImpl.function) >= 2

\* C9: after any completed operation, successful or failed, no two points of
\* the Function Store of any implementation are argument-equivalent.
C9_UniqueArguments ==
    Idle =>
        \A i \in ImplIds :
            \A j, k \in 1..Len(impls[i].function) :
                j # k => ~equivalentArguments(impls[i].function[j].arg,
                                              impls[i].function[k].arg)

\* set_value has replaced the value of a stored point.
C9_Witness ==
    /\ Exited("set_value") /\ call.result = "ok"
    /\ HoldsArg(PreImpl, call.fr.a)
    /\ TheImpl # PreImpl

\* C10: in the state a successful set_value(a, v) leaves, a second
\* set_value(a, v) changes nothing: the entries, the maxima, size() and every
\* value_at result are those after the first call.
C10_SetValueIdempotent ==
    (Exited("set_value") /\ call.result = "ok") =>
        LET again == set_value(TheImpl, call.fr.a, call.fr.v)
        IN  /\ again = TheImpl
            /\ Obs(again) = Obs(TheImpl)

\* The first set_value changed the function.
C10_Witness ==
    /\ Exited("set_value") /\ call.result = "ok"
    /\ TheImpl # PreImpl
    /\ Len(TheImpl.function) >= 2

\* The call is a set_value(a, v) on a function that holds at a a value
\* equivalent to v.
SetsEquivalent ==
    /\ call.fr.op = "set_value"
    /\ LET o == value_at(PreImpl, call.fr.a)
       IN  o.result = "ok" /\ equivalentValues(o.ret, call.fr.v)

\* C11 as stated: set_value(a, v) on a value equivalent to the stored one
\* changes no state, allocates nothing (the candidate point is never created)
\* and has no step at which a failure can occur.
C11_Original ==
    SetsEquivalent =>
        /\ impls = call.preImpls /\ cow = call.preCow
        /\ call.fr.pt = NoPoint
        /\ ~call.injected

\* C11, amended: set_value(a, v) on a value equivalent to the stored one
\* changes no state at any step; it does create the candidate point before
\* the test, and a failure can occur only in the lookup, in the creation of
\* the candidate point or in the comparison, after which the state is still
\* unchanged and the failure reaches the caller; without a failure the call
\* returns normally.
C11_EquivalentSetIsNoOp ==
    SetsEquivalent =>
        /\ impls = call.preImpls /\ cow = call.preCow
        /\ call.fr.pc \in {"find", "point", "same", "return", "throw", "ended"}
        /\ call.failedAt \in {"none", "find", "point", "same"}
        /\ call.fr.pc = "same" => call.fr.pt = point_type(call.fr.a, call.fr.v)
        /\ Idle => call.result = (IF call.injected THEN "throw" ELSE "ok")

\* The call returned after the test, on a stored value that differs from v.
C11_Witness ==
    /\ SetsEquivalent /\ Exited("set_value") /\ call.result = "ok"
    /\ value_at(PreImpl, call.fr.a).ret # call.fr.v
    /\ Len(TheImpl.function) >= 2

\* C12: erase(a) on a function that holds no point at a changes, at no step,
\* the Function Store, the Maxima Index or size(), and reports no error: it
\* returns normally unless a failure is forced into its lookup, and never
\* ends with InvalidArg.
C12_EraseAbsentIsNoOp ==
    (call.fr.op = "erase" /\ ~HoldsArg(PreImpl, call.fr.a)) =>
        /\ impls = call.preImpls /\ cow = call.preCow
        /\ size(TheImpl) = size(PreImpl)
        /\ call.failedAt \in {"none", "find"}
        /\ Idle => call.result = (IF call.injected THEN "throw" ELSE "ok")

\* erase of an argument that lies between two stored points has returned.
C12_Witness ==
    /\ Exited("erase") /\ call.result = "ok"
    /\ ~HoldsArg(PreImpl, call.fr.a)
    /\ \E i, j \in 1..Len(TheImpl.function) :
          /\ argLess(TheImpl.function[i].arg, call.fr.a)
          /\ argLess(call.fr.a, TheImpl.function[j].arg)

\* The arguments that have a value in implementation m.
Domain(m) == {m.function[i].arg : i \in 1..Len(m.function)}

\* C13: after any completed operation size() is the number of points of the
\* Function Store, which is the number of arguments that have a value, not
\* the number of maxima; a successful set_value on an absent argument makes
\* it one more, on a present argument leaves it, a successful erase of a
\* present argument makes it one less, of an absent argument leaves it.
C13_SizeCountsPoints ==
    Idle =>
        /\ \A i \in ImplIds : size(impls[i]) = Cardinality(Domain(impls[i]))
        /\ (Mutating /\ call.result = "ok") =>
              size(TheImpl) = size(PreImpl) +
                  (CASE call.fr.op = "set_value" /\ ~HoldsArg(PreImpl, call.fr.a) -> 1
                     [] call.fr.op = "erase" /\ HoldsArg(PreImpl, call.fr.a) -> -1
                     [] OTHER -> 0)

\* erase has taken a point out of a function with fewer maxima than points.
C13_Witness ==
    /\ Exited("erase") /\ call.result = "ok"
    /\ HoldsArg(PreImpl, call.fr.a)
    /\ size(TheImpl) = 2 /\ Len(TheImpl.localMaxima) = 1

\* mx_begin() .. mx_end(): the maxima in the order of the std::set.
MaximaTraversal(m) == m.localMaxima

\* C14: after every completed operation the maxima traversal goes down in
\* value and, among value-equivalent maxima, strictly up in argument; so each
\* maximum appears once.
C14_MaximaOrder ==
    Idle =>
        \A i \in ImplIds :
            LET t == MaximaTraversal(impls[i])
            IN  /\ \A j, k \in 1..Len(t) :
                      j < k =>
                          \/ valueLess(t[k].value, t[j].value)
                          \/ /\ equivalentValues(t[j].value, t[k].value)
                             /\ argLess(t[j].arg, t[k].arg)
                /\ Cardinality(Elems(t)) = Len(t)

\* Two maxima of a function of three points: the one of the greater value,
\* which is at the greater argument, comes first.
C14_Witness ==
    /\ Idle /\ Mutating /\ call.result = "ok"
    /\ size(TheImpl) = 3
    /\ LET t == MaximaTraversal(TheImpl)
       IN  /\ Len(t) = 2
           /\ valueLess(t[2].value, t[1].value) /\ argLess(t[2].arg, t[1].arg)

\* begin() .. end(): the points in the order of the multiset.
Traversal(m) == m.function

\* The values the traversal of m carries at argument x.
ValuesAt(m, x) ==
    {Traversal(m)[i].value :
        i \in {j \in 1..Len(Traversal(m)) : equivalentArguments(Traversal(m)[j].arg, x)}}

\* The values the traversal has to carry at x after the call that ended, when
\* every entry carries the value most recently set: v at the argument of a
\* successful set_value(a, v), nothing at the argument of a successful erase,
\* and what it carried before the call everywhere else and after a failure.
\* With keep, a stored value equivalent to v is what set_value(a, v) leaves.
LastSet(x, keep) ==
    IF call.result = "ok" /\ Mutating /\ equivalentArguments(x, call.fr.a)
    THEN IF call.fr.op = "erase" THEN {}
         ELSE IF keep /\ \E w \in ValuesAt(PreImpl, x) : equivalentValues(w, call.fr.v)
              THEN ValuesAt(PreImpl, x)
              ELSE {call.fr.v}
    ELSE ValuesAt(PreImpl, x)

StrictlyIncreasing(t) ==
    \A j, k \in 1..Len(t) : j < k => argLess(t[j].arg, t[k].arg)

\* C15 as stated: after every completed operation the full traversal goes
\* strictly up in argument, so that every stored point appears once, and each
\* point carries the value most recently set for its argument.
C15_Original ==
    Idle =>
        /\ StrictlyIncreasing(Traversal(TheImpl))
        /\ call.fr.op # "none" =>
              \A x \in Args : ValuesAt(TheImpl, x) = LastSet(x, FALSE)

\* C15, amended: after every completed operation the full traversal goes
\* strictly up in argument, so that every stored point appears once, and each
\* point carries the value most recently set for its argument, except that a
\* set_value with a value equivalent to the stored one leaves the stored
\* value in place.
C15_TraversalOrder ==
    Idle =>
        /\ \A i \in ImplIds : StrictlyIncreasing(Traversal(impls[i]))
        /\ call.fr.op # "none" =>
              \A x \in Args : ValuesAt(TheImpl, x) = LastSet(x, TRUE)

\* set_value has replaced the value of the middle one of three points by a
\* value that is not equivalent to it.
C15_Witness ==
    /\ Exited("set_value") /\ call.result = "ok"
    /\ Len(Traversal(TheImpl)) = 3
    /\ Traversal(TheImpl)[2] = point_type(call.fr.a, call.fr.v)
    /\ Len(Traversal(PreImpl)) = 3
    /\ ~equivalentValues(Traversal(PreImpl)[2].value, call.fr.v)

\* The operations of a handle that are const members.
ReadOps == {"value_at", "find", "size", "begin", "end", "mx_begin", "mx_end"}

\* The implementations that a handle or the cowBackup of the running call owns.
Owned(c, backup) == {c[g] : g \in Handles} \cup ({backup} \ {0})

\* C16: a copy assignment makes the handle own the implementation of the
\* handle it was assigned from and creates no implementation; a read changes
\* no ownership and no implementation, so the handles that shared keep
\* sharing; an implementation that nothing owned becomes owned only by the
\* construction of a handle or by the clone of a mutating call through a
\* handle whose implementation was shared.
C16_CopySharesUntilMutation ==
    [][ /\ (Idle /\ Idle' /\ call'.fr.op = "copy") =>
               /\ \E g \in Handles \ {call'.h} :
                      cow'[call'.h] = cow[g] /\ cow'[g] = cow[g]
               /\ Owned(cow', call'.cowBackup) \subseteq Owned(cow, call.cowBackup)
        /\ (Idle /\ Idle' /\ call'.fr.op \in ReadOps) =>
               cow' = cow /\ impls' = impls
        /\ ~(Owned(cow', call'.cowBackup) \subseteq Owned(cow, call.cowBackup)) =>
               /\ \/ Idle /\ Idle' /\ call'.fr.op = "construct"
                  \/ call.pc = "clone" /\ Mutating /\ SharedBefore
               /\ Cardinality(Owned(cow', call'.cowBackup) \ Owned(cow, call.cowBackup)) = 1
      ]_vars

\* A read through a handle that shares a non-empty implementation with its
\* copy has ended, and the two still share.
C16_Witness ==
    /\ Exited("value_at")
    /\ call.result = "ok"
    /\ cow["f"] = cow["g"]
    /\ Len(TheImpl.function) > 0

\* What the mutating call of the frame makes of implementation m when nothing
\* fails.
Mutated(m) ==
    IF call.fr.op = "set_value" THEN set_value(m, call.fr.a, call.fr.v)
                                ELSE erase(m, call.fr.a)

\* C17: when a mutating call through a handle whose implementation was shared
\* has succeeded, the handle is the only owner of an implementation that
\* nothing owned before and that holds the mutation of the shared content,
\* the implementation that was shared is as before the call (same function
\* and maxima) and every other handle still owns the implementation it owned,
\* so that it observes the content it observed.
C17_SharedSuccessClones ==
    (Idle /\ Mutating /\ call.result = "ok" /\ SharedBefore) =>
        /\ cow[call.h] \notin Owned(call.preCow, 0)
        /\ use_count(cow, call.cowBackup, call.h) = 1
        /\ TheImpl = Mutated(PreImpl)
        /\ impls[call.preCow[call.h]] = PreImpl
        /\ \A g \in Handles \ {call.h} :
              /\ cow[g] = call.preCow[g]
              /\ impls[cow[g]] = call.preImpls[call.preCow[g]]
              /\ Obs(impls[cow[g]]) = Obs(call.preImpls[call.preCow[g]])

\* The shared implementation held a point and the call changed it in the clone.
C17_Witness ==
    /\ Idle /\ Mutating /\ call.result = "ok" /\ SharedBefore
    /\ Len(PreImpl.function) > 0
    /\ TheImpl # PreImpl
    /\ Len(TheImpl.function) > 0

\* C18: from the empty function, once (1,10), (2,20), (3,10), (4,30), (5,5)
\* are set in that order the maxima traversal is (4,30), (2,20), and once
\* erase(4) has succeeded after that it is (2,20).
C18_ScenarioMaxima ==
    /\ (Idle /\ TheImpl.function = ScenarioPoints) =>
           MaximaTraversal(TheImpl) = <<point_type(4, 30), point_type(2, 20)>>
    /\ (Exited("erase") /\ call.result = "ok") =>
           /\ Traversal(TheImpl) = <<point_type(1, 10), point_type(2, 20),
                                     point_type(3, 10), point_type(5, 5)>>
           /\ MaximaTraversal(TheImpl) = <<point_type(2, 20)>>

\* The erase of the scenario has succeeded on the five points.
C18_Witness ==
    /\ Exited("erase") /\ call.result = "ok"
    /\ PreImpl.function = ScenarioPoints
    /\ Len(TheImpl.function) = 4

\* Positions i..j of m.function are a run of value-equivalent points with a
\* strictly smaller value, or no point, on either side.
Plateau(m, i, j) ==
    /\ \A k \in i..j : equivalentValues(m.function[k].value, m.function[i].value)
    /\ i = 1 \/ valueLess(m.function[i - 1].value, m.function[i].value)
    /\ j = Len(m.function) \/ valueLess(m.function[j + 1].value, m.function[j].value)

\* C19: after every completed operation, every point of a run of
\* argument-adjacent value-equivalent points that has a strictly smaller
\* value or no point on each side is in the Maxima Index; so when the
\* function is three value-equivalent points at 1, 2, 3, reached by calls in
\* any order, all three are maxima.
C19_PlateauAllMaxima ==
    Idle =>
        \A i \in 1..Len(TheImpl.function) : \A j \in i..Len(TheImpl.function) :
            Plateau(TheImpl, i, j) =>
                \A k \in i..j : TheImpl.function[k] \in Elems(TheImpl.localMaxima)

\* Three value-equivalent points, not all of one value, are the whole
\* function, and the Maxima Index holds the three.
C19_Witness ==
    /\ Idle /\ Mutating /\ call.result = "ok"
    /\ Len(TheImpl.function) = 3
    /\ Plateau(TheImpl, 1, 3)
    /\ TheImpl.function[1].value # TheImpl.function[2].value
    /\ Len(TheImpl.localMaxima) = 3

\* C20: whenever the function holds exactly one point between calls, that
\* point is the Maxima Index.
C20_SinglePointIsMaximum ==
    (Idle /\ Len(TheImpl.function) = 1) =>
        MaximaTraversal(TheImpl) = <<TheImpl.function[1]>>

\* An erase left as the only point the right neighbour of the erased point,
\* which was not a maximum before the call.
C20_Witness ==
    /\ Exited("erase") /\ call.result = "ok"
    /\ Len(PreImpl.function) = 2
    /\ Len(TheImpl.function) = 1
    /\ TheImpl.function[1] = PreImpl.function[2]
    /\ TheImpl.function[1] \notin Elems(PreImpl.localMaxima)
    /\ TheImpl.function[1] \in Elems(TheImpl.localMaxima)

\* C21: a handle that has just been constructed, at the start or in place of
\* another, owns an implementation that no other handle owns and that is
\* empty: size() is 0, the traversal and the maxima traversal are empty, and
\* value_at fails with InvalidArg for every argument.
C21_ConstructedIsEmpty ==
    (Idle /\ call.fr.op \in {"none", "construct"}) =>
        \A h \in (IF call.fr.op = "none" THEN Handles ELSE {call.h}) :
            LET m == impls[cow[h]]
            IN  /\ use_count(cow, 0, h) = 1
                /\ size(m) = 0
                /\ Traversal(m) = <<>>
                /\ MaximaTraversal(m) = <<>>
                /\ \A a \in Args : value_at(m, a).result = "InvalidArg"

\* A handle was constructed in place of one that shared a non-empty
\* implementation, which the other handle still owns.
C21_Witness ==
    /\ Exited("construct")
    /\ SharedBefore
    /\ Len(PreImpl.function) > 0
    /\ \E g \in Handles \ {call.h} : Len(impls[cow[g]].function) > 0

\* A mutating call through a handle whose implementation was shared is running
\* or has ended.
SharedCall == Mutating /\ SharedBefore

\* C22 as stated: while the mutation of a shared call has not succeeded, the
\* handle does not own the clone.
C22_Original ==
    (SharedCall /\ ~(Idle /\ call.result = "ok")) =>
        cow[call.h] = call.preCow[call.h]

\* C22, amended: a mutating call through a handle whose implementation is
\* shared keeps a backup reference to it, clones it and makes the handle own
\* the clone at once, then mutates the clone through the handle; a failure
\* of the mutation makes the handle own the original again (a failure of the
\* clone leaves it owning the original).  At every step the original is as
\* before the call, every other handle owns what it owned, and no other handle
\* owns the clone; when the call has failed, the ownership and all
\* implementations are as before the call.
C22_CloneThenMutate ==
    SharedCall =>
        /\ \A g \in Handles \ {call.h} : cow[g] = call.preCow[g]
        /\ impls[call.preCow[call.h]] = PreImpl
        /\ (call.pc \in {"cowMutator", "clone"}
                \/ (call.pc = "cowCatch" /\ call.failedAt = "clone")) =>
               cow = call.preCow /\ impls = call.preImpls
        /\ call.pc \in {"clone", "impl", "cowCatch"} =>
               call.cowBackup = call.preCow[call.h]
        /\ (call.pc = "impl"
                \/ (call.pc = "cowCatch" /\ call.failedAt # "clone")
                \/ (Idle /\ call.result = "ok")) =>
               /\ cow[call.h] \notin Owned(call.preCow, 0)
               /\ use_count(cow, 0, call.h) = 1
        /\ (Idle /\ call.result # "ok") =>
               cow = call.preCow /\ impls = call.preImpls

\* The call is in the mutation, the handle owns the clone, and the clone
\* already differs from the original.
C22_Witness ==
    /\ SharedCall
    /\ call.pc = "impl"
    /\ cow[call.h] # call.preCow[call.h]
    /\ TheImpl # PreImpl

\* A mutating call through a handle that alone owned its implementation is
\* running or has ended.
ExclusiveCall == Mutating /\ ~SharedBefore

\* C23: a mutating call through a handle that is the sole owner of its
\* implementation makes no clone and no backup reference: at every step every
\* handle owns the implementation it owned, and every implementation but the
\* handle's is as before the call.  At the exit the handle's implementation
\* is the mutation of what it was when the call succeeded, and is as it was
\* when the call failed.
C23_ExclusiveInPlace ==
    ExclusiveCall =>
        /\ cow = call.preCow
        /\ call.cowBackup = 0
        /\ call.pc \notin {"clone", "cowCatch"}
        /\ \A i \in ImplIds \ {cow[call.h]} : impls[i] = call.preImpls[i]
        /\ (Idle /\ call.result = "ok") => TheImpl = Mutated(PreImpl)
        /\ (Idle /\ call.result # "ok") => TheImpl = PreImpl

\* The sole owner changed its implementation in place while the other handle
\* owns another implementation that holds a point.
C23_Witness ==
    /\ ExclusiveCall /\ Idle /\ call.result = "ok"
    /\ TheImpl # PreImpl
    /\ Len(PreImpl.function) > 0
    /\ \E g \in Handles \ {call.h} :
          cow[g] # cow[call.h] /\ Len(impls[cow[g]].function) > 0

\* The call is about to build a guard while the point it will remove (the old
\* point of set_value, the target of erase) is stored at position fr.it.
Evaluating ==
    /\ call.pc = "impl"
    /\ call.fr.pc \in {"guardNext", "guardCurr", "guardPrev"}
    /\ call.fr.it # End

\* m with the value of the point at position it replaced by w.
WithValueAt(m, it, w) == [m EXCEPT !.function[it].value = w]

\* C24: when set_value on an argument that has a point old, or erase of a
\* target, evaluates a position (successor, new point, predecessor) while
\* old/target is still stored, the decision is what the rescan says of that
\* point in the function without old/target; it is the same whatever the
\* value of old/target; the position is never old/target, and the guard puts
\* nothing but the evaluated point into the Maxima Index.
C24_NeighbourSkipping ==
    Evaluating =>
        LET m == TheImpl
            ignore == call.fr.it
            it == GuardTarget(m, call.fr)
            after == fnErase(m, ignore)
            r == ChangeLocalMaximaGuard(m, it, ignore)
        IN  /\ it # ignore
            /\ it # End =>
                  /\ isLocalMaxima(m, it, ignore)
                        = (m.function[it] \in OracleMaxima(after.function))
                  /\ \A w \in Values :
                        isLocalMaxima(WithValueAt(m, ignore, w), it, ignore)
                            = isLocalMaxima(m, it, ignore)
                  /\ r.g.insert => isLocalMaxima(m, it, ignore)
                  /\ r.g.erase => ~isLocalMaxima(m, it, ignore)
                  /\ Elems(r.m.localMaxima) \ Elems(m.localMaxima) \subseteq {m.function[it]}
            /\ m.function[ignore] \notin
                  Elems(r.m.localMaxima) \ Elems(m.localMaxima)

\* set_value evaluates the predecessor of the new point: old lies between the
\* two and is greater than the predecessor, the new point is not, so that the
\* decision differs from the one taken with old in place.
C24_Witness ==
    /\ Evaluating
    /\ call.fr.op = "set_value" /\ call.fr.pc = "guardPrev"
    /\ LET it == GuardTarget(TheImpl, call.fr)
       IN  /\ it # End
           /\ isLocalMaxima(TheImpl, it, call.fr.it)
           /\ ~isLocalMaxima(TheImpl, it, End)

\* The arguments stored in m next to a, below and above.
NeighbourArgs(m, a) ==
    LET below == {p.arg : p \in {q \in Elems(m.function) : argLess(q.arg, a)}}
        above == {p.arg : p \in {q \in Elems(m.function) : argLess(a, q.arg)}}
    IN  {x \in below : \A y \in below : ~argLess(x, y)}
            \cup {x \in above : \A y \in above : ~argLess(y, x)}

\* C25: a successful set_value(a, v) or erase(a) changes the Maxima Index
\* membership of no point but those at a (the new, old or erased point) and
\* the points stored immediately below and above a; every point at another
\* argument is stored after the call exactly when it was before, with the
\* same value, and every point farther away than the neighbours is a maximum
\* exactly when it was before.
C25_EditIsLocal ==
    (Idle /\ Mutating /\ call.result = "ok") =>
        LET a == call.fr.a
            near == NeighbourArgs(PreImpl, a)
        IN  /\ NeighbourArgs(TheImpl, a) = near
            /\ \A p \in Elems(PreImpl.function) \cup Elems(TheImpl.function) :
                  ~equivalentArguments(p.arg, a) =>
                      /\ p \in Elems(PreImpl.function) <=> p \in Elems(TheImpl.function)
                      /\ p.arg \notin near =>
                            (p \in Elems(PreImpl.localMaxima)
                                <=> p \in Elems(TheImpl.localMaxima))
            /\ Elems(TheImpl.localMaxima) \subseteq Elems(TheImpl.function)

\* The call changed the point at the lowest of three arguments and the
\* membership of its neighbour, and the third point, of a value equivalent to
\* the neighbour's, is a maximum before and after.
C25_Witness ==
    /\ Idle /\ Mutating /\ call.result = "ok"
    /\ Len(PreImpl.function) = 3
    /\ equivalentArguments(call.fr.a, PreImpl.function[1].arg)
    /\ PreImpl.function[2] \in Elems(PreImpl.localMaxima)
    /\ PreImpl.function[2] \notin Elems(TheImpl.localMaxima)
    /\ PreImpl.function[3] \in Elems(PreImpl.localMaxima)
    /\ PreImpl.function[3] \in Elems(TheImpl.localMaxima)

\* The running set_value has not left the try block normally: it is at or
\* before the done() calls, or an exception is in flight.
BeforeCommit ==
    /\ call.pc = "impl" /\ call.fr.op = "set_value"
    /\ \/ call.fr.exc
       \/ call.fr.pc \in {"find", "point", "same", "mxFind", "insert",
                          "guardNext", "guardCurr", "guardPrev", "done"}

\* The entries that the guards on the stack have inserted.
GuardInserted(fr) ==
    {fr.guards[i].mxIt : i \in {j \in 1..Len(fr.guards) : fr.guards[j].insert}}

\* The positions set_value evaluates: successor, new point, predecessor.
EvaluatedPositions(m, fr) ==
    {safeNextWithAvoid(m, fr.fnIt, fr.it), fr.fnIt,
     safePrevWithAvoid(m, fr.fnIt, fr.it)} \ {End}

\* C26: until the three evaluations of set_value have succeeded, nothing that
\* was in the Maxima Index or in the Function Store when the call began is
\* removed, and while no evaluation has failed the Maxima Index is what it was
\* plus what the guards inserted.  Once the three have succeeded, the rest of
\* the call leaves in the Maxima Index, of the evaluated points, exactly
\* those found to be maxima, and the old point in neither container.
C26_DeferredRemoval ==
    BeforeCommit =>
        LET m == TheImpl
            fr == call.fr
        IN  /\ Elems(PreImpl.localMaxima) \subseteq Elems(m.localMaxima)
            /\ Elems(PreImpl.function) \subseteq Elems(m.function)
            /\ ~fr.exc =>
                  Elems(m.localMaxima)
                      = Elems(PreImpl.localMaxima) \cup GuardInserted(fr)
            /\ fr.pc = "done" =>
                  LET final == RunFrom(St(m, fr)).m
                  IN  /\ \A it \in EvaluatedPositions(m, fr) :
                            m.function[it] \in Elems(final.localMaxima)
                                <=> isLocalMaxima(m, it, fr.it)
                      /\ fr.it # End =>
                            /\ m.function[fr.it] \in Elems(PreImpl.function)
                            /\ m.function[fr.it] \notin Elems(final.function)
                            /\ m.function[fr.it] \notin Elems(final.localMaxima)

\* The three evaluations have succeeded on an argument that has an old point:
\* one guard has inserted an entry and another holds a removal that is still
\* to be made.
C26_Witness ==
    /\ BeforeCommit /\ call.fr.pc = "done" /\ call.fr.it # End
    /\ \E i \in 1..Len(call.fr.guards) : call.fr.guards[i].insert
    /\ \E i \in 1..Len(call.fr.guards) :
          /\ call.fr.guards[i].erase
          /\ call.fr.guards[i].mxIt \in Elems(TheImpl.localMaxima)

\* erase is running on an argument that had a point when the call began.
ErasingPresent ==
    /\ call.pc = "impl" /\ call.fr.op = "erase"
    /\ HoldsArg(PreImpl, call.fr.a)

\* The point erase was called to remove.
Target == PreImpl.function[find(PreImpl, call.fr.a)]

\* The removals that guards on the stack hold back and have not made yet.
PendingRemovals(m, fr) ==
    {fr.guards[i].mxIt : i \in {j \in 1..Len(fr.guards) :
        fr.guards[j].erase /\ fr.guards[j].mxIt \in Elems(m.localMaxima)}}

\* C27 as stated, with commit as the execution of the deferred removals: when
\* the target is out of the Function Store, no removal is still held back.
C27_Original ==
    (ErasingPresent /\ Target \notin Elems(TheImpl.function)) =>
        PendingRemovals(TheImpl, call.fr) = {}

\* C27, amended: in erase of a present argument the target leaves the Function
\* Store and the Maxima Index only after the evaluations of its successor and
\* predecessor have succeeded and both guards are marked done; the removals
\* the guards hold back are made after that, when the guards are destroyed.
\* Until then nothing that was stored or indexed when the call began is
\* removed, and when an evaluation fails the target stays in both.
C27_EraseAfterEvaluations ==
    /\ ErasingPresent =>
          LET m == TheImpl
              fr == call.fr
          IN  IF Target \in Elems(m.function)
              THEN /\ m.function = PreImpl.function
                   /\ Elems(PreImpl.localMaxima) \subseteq Elems(m.localMaxima)
                   /\ fr.pc \notin {"dtor", "return"} \/ fr.exc
              ELSE /\ fr.pc \in {"dtor", "return"} /\ ~fr.exc
                   /\ Target \notin Elems(m.localMaxima)
                   /\ \A i \in 1..Len(fr.guards) : ~fr.guards[i].reverse
                   /\ fr.pc = "return" => PendingRemovals(m, fr) = {}
    /\ (Exited("erase") /\ call.result # "ok") => TheImpl = PreImpl

\* The target, which lay between two points, is out of the Function Store
\* while a guard still holds back the removal of a neighbour from the Maxima
\* Index.
C27_Witness ==
    /\ ErasingPresent
    /\ Len(PreImpl.function) = 3 /\ Target = PreImpl.function[2]
    /\ Target \notin Elems(TheImpl.function)
    /\ PendingRemovals(TheImpl, call.fr) # {}

\* The positions of m.function whose argument is equivalent to x.
PositionsAt(m, x) ==
    {i \in 1..Len(m.function) : equivalentArguments(m.function[i].arg, x)}

\* set_value is between the insertion of the new point and the removal of the
\* old one, or of the new one in the catch block.
BothStored ==
    /\ call.pc = "impl" /\ call.fr.op = "set_value"
    /\ call.fr.it # End
    /\ call.fr.pc \in {"guardNext", "guardCurr", "guardPrev", "done", "dtor",
                       "catch", "eraseOld"}

\* C28: in every state no argument has more than two points, and an argument
\* has two only while set_value on that argument runs.  Between the insertion
\* of the new point and the commit, set_value on an argument that has an old
\* point holds exactly two points there: old and, right after it, new, whose
\* values are not equivalent.
C28_TransientDuplicate ==
    /\ \A i \in ImplIds : \A x \in Args :
          /\ Cardinality(PositionsAt(impls[i], x)) <= 2
          /\ Cardinality(PositionsAt(impls[i], x)) = 2 =>
                /\ call.pc = "impl" /\ call.fr.op = "set_value"
                /\ i = cow[call.h]
                /\ equivalentArguments(x, call.fr.a)
    /\ BothStored =>
          LET m == TheImpl
              fr == call.fr
          IN  /\ PositionsAt(m, fr.a) = {fr.it, fr.fnIt}
              /\ fr.fnIt = fr.it + 1
              /\ m.function[fr.it] = PreImpl.function[find(PreImpl, fr.a)]
              /\ m.function[fr.fnIt] = point_type(fr.a, fr.v)
              /\ ~equivalentValues(m.function[fr.it].value, m.function[fr.fnIt].value)

\* Old and new are both stored at the middle one of three arguments.
C28_Witness ==
    /\ BothStored /\ call.fr.pc = "guardCurr"
    /\ Len(TheImpl.function) = 4
    /\ call.fr.it = 2

\* The orders in which the three guards of set_value could be built.
EvaluationOrders ==
    {o \in [1..3 -> {"guardNext", "guardCurr", "guardPrev"}] :
        \A i, j \in 1..3 : i # j => o[i] # o[j]}

\* The try block of set_value and what follows it, from the state after
\* function.insert, with the three guards built in the given order.  failAt
\* is the evaluation that throws (0: none): the guards built before it are
\* destroyed in reverse order and the catch block erases the new point;
\* when none throws all are marked done and destroyed, and old is erased.
EvaluateInOrder(m, fr, order, failAt) ==
    LET pos(k) == GuardTarget(m, [fr EXCEPT !.pc = order[k]])
        r1 == ChangeLocalMaximaGuard(m, pos(1), fr.it)
        r2 == ChangeLocalMaximaGuard(r1.m, pos(2), fr.it)
        r3 == ChangeLocalMaximaGuard(r2.m, pos(3), fr.it)
    IN  CASE failAt = 1 -> StepCatch(m, fr).m
          [] failAt = 2 -> StepCatch(GuardDtor(r1.m, r1.g), fr).m
          [] failAt = 3 -> StepCatch(GuardDtor(GuardDtor(r2.m, r2.g), r1.g), fr).m
          [] OTHER ->
                StepEraseOld(
                    GuardDtor(GuardDtor(GuardDtor(r3.m, done(r3.g)), done(r2.g)),
                              done(r1.g)), fr).m

\* set_value has inserted the new point and is about to build its guards.
Inserted ==
    /\ call.pc = "impl" /\ call.fr.op = "set_value"
    /\ call.fr.pc = "guardNext" /\ ~call.fr.exc

\* C29: set_value builds its guards for the successor, the new point and the
\* predecessor, in that order; from the state after the insertion of the new
\* point, every order of the three evaluations ends in the implementation
\* the order of the code ends in, and for every order a failure of any of
\* the evaluations ends in the implementation as it was before the call.
C29_EvaluationOrder ==
    /\ [](Inserted =>
            \A order \in EvaluationOrders :
                /\ EvaluateInOrder(TheImpl, call.fr, order, 0)
                      = RunFrom(St(TheImpl, call.fr)).m
                /\ \A failAt \in 1..3 :
                      EvaluateInOrder(TheImpl, call.fr, order, failAt) = PreImpl)
    /\ [][(call.pc = "impl" /\ call'.pc = "impl" /\ call.fr.op = "set_value"
              /\ ~call'.fr.exc) =>
            /\ call.fr.pc = "guardNext" =>
                  call'.fr.pc = "guardCurr" /\ Len(call'.fr.guards) = 1
            /\ call.fr.pc = "guardCurr" =>
                  call'.fr.pc = "guardPrev" /\ Len(call'.fr.guards) = 2
            /\ call.fr.pc = "guardPrev" =>
                  call'.fr.pc = "done" /\ Len(call'.fr.guards) = 3
         ]_vars

\* The new point replaces an old one between two neighbours; the evaluations
\* insert an entry and hold back the removal of another.
C29_Witness ==
    /\ Inserted /\ call.fr.it # End
    /\ Len(TheImpl.function) = 4
    /\ LET final == RunFrom(St(TheImpl, call.fr)).m
       IN  /\ Elems(final.localMaxima) \ Elems(PreImpl.localMaxima) # {}
           /\ (Elems(PreImpl.localMaxima) \ Elems(final.localMaxima))
                  \ {TheImpl.function[call.fr.it]} # {}

\* The Maxima Index of m is the rescan of its Function Store, each point once.
AgreesWithOracle(m) ==
    /\ Elems(m.localMaxima) = OracleMaxima(m.function)
    /\ Len(m.localMaxima) = Cardinality(Elems(m.localMaxima))

\* C30: erasing the only point of a function leaves the Function Store and
\* the Maxima Index empty; and when set_value has changed the value of one
\* point of a two-point function, the Maxima Index is the rescan of the two
\* points, and it is again after set_value of any value at the other point.
C30_SmallFunctions ==
    /\ (Exited("erase") /\ call.result = "ok"
            /\ Len(PreImpl.function) = 1 /\ HoldsArg(PreImpl, call.fr.a)) =>
          TheImpl = EmptyImpl
    /\ (Exited("set_value") /\ call.result = "ok"
            /\ Len(PreImpl.function) = 2 /\ HoldsArg(PreImpl, call.fr.a)) =>
          /\ Len(TheImpl.function) = 2
          /\ AgreesWithOracle(TheImpl)
          /\ \A i \in 1..2 : \A v \in Values :
                ~equivalentArguments(TheImpl.function[i].arg, call.fr.a) =>
                    LET then == set_value(TheImpl, TheImpl.function[i].arg, v)
                    IN  /\ Len(then.function) = 2
                        /\ AgreesWithOracle(then)

\* The value of the first of two points was lowered to a value equivalent to,
\* but other than, that of the second: the second has become a maximum too.
C30_Witness ==
    /\ Exited("set_value") /\ call.result = "ok"
    /\ Len(PreImpl.function) = 2
    /\ equivalentArguments(call.fr.a, PreImpl.function[1].arg)
    /\ Len(PreImpl.localMaxima) = 1
    /\ Len(TheImpl.localMaxima) = 2
    /\ TheImpl.function[1].value # TheImpl.function[2].value

\* C31: a step of value_at (returning or failing), find, size, begin, end,
\* mx_begin or mx_end leaves the Function Store and the Maxima Index of every
\* implementation and the implementation of every handle as they were.
C31_ReadsHaveNoEffect ==
    [][(Idle /\ Idle' /\ call'.fr.op \in ReadOps) =>
           /\ impls' = impls
           /\ cow' = cow
           /\ call'.preImpls = impls /\ call'.preCow = cow
      ]_vars

\* A read through a handle that shares an implementation holding a point has
\* found the point.
C31_Witness ==
    /\ Exited("find") /\ call.result = "ok"
    /\ call.fr.it # End
    /\ \E g \in Handles \ {call.h} : cow[g] = cow[call.h]

\* C32: whenever no call is running, every handle lets one observe the
\* entries, the maxima and the size of the function it holds under value
\* semantics: the function of its own that was deep-copied at each copy of a
\* handle and received the mutating calls made through the handle.
C32_ValueSemantics ==
    Idle =>
        \A h \in Handles :
            LET m == impls[cow[h]]
                r == call.reference[h]
            IN  /\ Traversal(m) = Traversal(r)
                /\ MaximaTraversal(m) = MaximaTraversal(r)
                /\ size(m) = size(r)

\* After copies and calls, the two handles share no implementation, and both
\* hold a point, the one not that of the other.
C32_Witness ==
    /\ Idle /\ Mutating /\ call.result = "ok" /\ SharedBefore
    /\ cow["f"] # cow["g"]
    /\ Len(impls[cow["f"]].function) > 0
    /\ Len(impls[cow["g"]].function) > 0
    /\ impls[cow["f"]] # impls[cow["g"]]
    /\ call.reference["f"] # call.reference["g"]

\* The call changes nothing: erase of an argument that has no point, or
\* set_value of a value equivalent to the one stored.
ChangesNothing ==
    \/ call.fr.op = "erase" /\ ~HoldsArg(PreImpl, call.fr.a)
    \/ SetsEquivalent

\* C33: a mutating call through a shared handle that changes nothing still
\* clones: after it the handle alone owns an implementation that nothing
\* owned before, whose content is that of the original; the original is as
\* it was and the other handles own it still.
C33_NoOpStillClones ==
    (Idle /\ Mutating /\ call.result = "ok" /\ SharedBefore /\ ChangesNothing) =>
        /\ cow[call.h] \notin Owned(call.preCow, 0)
        /\ use_count(cow, 0, call.h) = 1
        /\ TheImpl = PreImpl
        /\ impls[call.preCow[call.h]] = PreImpl
        /\ \A g \in Handles \ {call.h} :
              cow[g] = call.preCow[g] /\ cow[g] # cow[call.h]

\* set_value of a value equivalent to, but other than, the stored one has
\* returned through a handle that shared its implementation.
C33_Witness ==
    /\ Idle /\ call.result = "ok" /\ SharedBefore
    /\ SetsEquivalent
    /\ value_at(PreImpl, call.fr.a).ret # call.fr.v
    /\ cow["f"] # cow["g"]

\* C34: when set_value(a, v) has succeeded on a function that held no point
\* at a, erase(a) leaves the Function Store and the Maxima Index exactly as
\* they were before the set_value.
C34_SetThenEraseRestores ==
    (Exited("set_value") /\ call.result = "ok" /\ ~HoldsArg(PreImpl, call.fr.a)) =>
        /\ HoldsArg(TheImpl, call.fr.a)
        /\ erase(TheImpl, call.fr.a) = PreImpl

\* The new point went between two points that were maxima, and took the
\* place of both in the Maxima Index.
C34_Witness ==
    /\ Exited("set_value") /\ call.result = "ok" /\ ~HoldsArg(PreImpl, call.fr.a)
    /\ Len(PreImpl.function) = 2 /\ Len(PreImpl.localMaxima) = 2
    /\ TheImpl.function[2] = point_type(call.fr.a, call.fr.v)
    /\ MaximaTraversal(TheImpl) = <<point_type(call.fr.a, call.fr.v)>>

\* Sequences s and t of points agree but for values at argument a, which are
\* equivalent.
SamePointsBut(s, t, a) ==
    /\ Len(s) = Len(t)
    /\ \A i \in 1..Len(s) :
          /\ s[i].arg = t[i].arg
          /\ equivalentValues(s[i].value, t[i].value)
          /\ ~equivalentArguments(s[i].arg, a) => s[i].value = t[i].value

\* C35 as stated: after a successful set_value(a, v1), set_value(a, v2) gives
\* the entries, maxima and size that set_value(a, v2) alone gives.
C35_Original ==
    (Exited("set_value") /\ call.result = "ok") =>
        \A v2 \in Values :
            LET both == set_value(TheImpl, call.fr.a, v2)
                alone == set_value(PreImpl, call.fr.a, v2)
            IN  /\ Traversal(both) = Traversal(alone)
                /\ MaximaTraversal(both) = MaximaTraversal(alone)
                /\ size(both) = size(alone)

\* What a second set_value at the argument of the set_value that has returned
\* gives, against what it gives alone.
SecondWrite ==
    (Exited("set_value") /\ call.result = "ok") =>
        \A v2 \in Values :
            LET a == call.fr.a
                v1 == call.fr.v
                both == set_value(TheImpl, a, v2)
                alone == set_value(PreImpl, a, v2)
                o == value_at(PreImpl, a)
            IN  /\ SamePointsBut(Traversal(both), Traversal(alone), a)
                /\ SamePointsBut(MaximaTraversal(both), MaximaTraversal(alone), a)
                /\ size(both) = size(alone)
                /\ equivalentValues(value_at(both, a).ret, v2)
                /\ (~equivalentValues(v1, v2)
                        /\ (o.result = "ok" /\ equivalentValues(o.ret, v2) => o.ret = v2)) =>
                      both = alone
                /\ ~equivalentValues(v1, v2) =>
                      /\ value_at(both, a).ret = v2
                      /\ point_type(a, v1) \notin Elems(both.function)
                      /\ point_type(a, v1) \notin Elems(both.localMaxima)

\* C35, amended: the two states have the same size, the same entries and the
\* same maxima but for the value at a, which is equivalent in the two; they
\* are identical unless v2 is equivalent to v1, or to the value stored at a
\* before, without being it (a set_value of an equivalent value keeps the
\* stored one); when v1 and v2 are not equivalent nothing of (a, v1) remains.
C35_LastWriteWins == []SecondWrite

\* A value was set at an argument between two others that had a point of
\* another value, and made the point a maximum that it was not.
C35_Witness ==
    /\ Exited("set_value") /\ call.result = "ok"
    /\ Len(PreImpl.function) = 3 /\ Len(TheImpl.function) = 3
    /\ equivalentArguments(call.fr.a, PreImpl.function[2].arg)
    /\ PreImpl.function[2] \notin Elems(PreImpl.localMaxima)
    /\ TheImpl.function[2] \in Elems(TheImpl.localMaxima)
    /\ \E v2 \in Values :
          /\ ~equivalentValues(call.fr.v, v2)
          /\ set_value(TheImpl, call.fr.a, v2) # TheImpl

\* The live points that have cells.
CellPoints == WithCells(LivePoints)

\* Two points that alias a cell read the same argument, or the same value,
\* through it.
SameContent(ps, qs) ==
    \A p \in ps, q \in qs :
        /\ p.argCell = q.argCell => p.arg = q.arg
        /\ p.valueCell = q.valueCell => p.value = q.value

\* The clone step of cowMutator is taken.
CloneStep == call.pc = "clone" /\ call'.pc = "impl"

\* The step of set_value that constructs its point.
PointStep == call.pc = "impl" /\ call.fr.op = "set_value" /\ call.fr.pc = "point"

\* C36: payload sharing. Every stored point has an argument cell and a value
\* cell; a point of the Maxima Index aliases the cells of the point of the
\* Function Store with its argument and value, and between calls it is a
\* point of the Function Store; the points that alias a cell read one
\* argument or one value through it, the same as long as the cell lives. Cloning an implementation for
\* copy-on-write gives the clone the points of the original, cells included,
\* and creates no cell. Cells are created only by the step of set_value that
\* constructs its point, one argument cell and one value cell.
C36_PayloadSharing ==
    /\ [](/\ \A i \in ImplIds :
                /\ Elems(impls[i].function) \cup Elems(impls[i].localMaxima)
                      \subseteq CellPoints
                /\ \A p \in Elems(impls[i].localMaxima), q \in Elems(impls[i].function) :
                      (p.arg = q.arg /\ p.value = q.value) => p = q
                /\ Idle => Elems(impls[i].localMaxima) \subseteq Elems(impls[i].function)
          /\ SameContent(CellPoints, CellPoints))
    /\ [][
          LET argsNow == ArgCells
              valuesNow == ValueCells
              argsNext == ArgCells'
              valuesNext == ValueCells'
          IN  /\ CloneStep =>
                    /\ impls'[cow'[call.h]] = impls[cow[call.h]]
                    /\ cow'[call.h] # cow[call.h]
                    /\ impls'[cow[call.h]] = impls[cow[call.h]]
                    /\ argsNext = argsNow
                    /\ valuesNext = valuesNow
              /\ SameContent(CellPoints, CellPoints')
              /\ (~(argsNext \subseteq argsNow) \/ ~(valuesNext \subseteq valuesNow)) =>
                    /\ PointStep
                    /\ Cardinality(argsNext \ argsNow) = 1
                    /\ Cardinality(valuesNext \ valuesNow) = 1
       ]_vars

\* Between calls the two handles own different implementations, one the clone
\* of the other, and the point of the clone, a maximum, aliases the argument
\* cell and the value cell of the point of the original.
C36_Witness ==
    /\ Idle
    /\ cow["f"] # cow["g"]
    /\ Len(impls[cow["f"]].function) = 1
    /\ Len(impls[cow["g"]].function) = 1
    /\ impls[cow["f"]].function[1] \in WithCells(LivePoints)
    /\ impls[cow["f"]].function[1].argCell = impls[cow["g"]].function[1].argCell
    /\ impls[cow["f"]].function[1].valueCell = impls[cow["g"]].function[1].valueCell
    /\ impls[cow["g"]].localMaxima = impls[cow["g"]].function

====
